---- MODULE Spec2Model ----
(***************************************************************************)
(* Sentinel: one process per manager node keeps the DNS record of the      *)
(* cluster pointed at the public IP of the current leader.                 *)
(*                                                                         *)
(* The model holds the cluster (who leads, which events it emits), the DNS *)
(* zone behind the DnsClient, and for every node the Sentinel process:     *)
(* the goroutine executing Sentinel.Run, the reconciliation passes         *)
(* (CheckAndUpdateDNS) it has invoked, and the event stream WatchEvents    *)
(* reads.                                                                  *)
(***************************************************************************)
EXTENDS Integers, Sequences, FiniteSets, TLC

\* ------------------------------------------------------------------ bounds

\* Number of leadership changes the cluster goes through.
MaxChanges == 2

\* Number of orchestration events that are not leadership changes.
MaxNoise == 1

\* The InwxClient is followed through at most MaxOps operations, each nesting
\* at most MaxDepth invocations.
MaxOps == 2
MaxDepth == 3

\* ------------------------------------------------------- program constants

OrchestrationTypeDockerSwarm == "swarm"
OrchestrationTypeKubernetes == "kubernetes"
DnsProviderInwx == "inwx"
DnsProviderBunny == "bunny"

\* configureInwx: c.RecordTTL = 300
InwxRecordTTL == 300
\* configureBunny: c.RecordTTL = 15
BunnyRecordTTL == 15

\* NewConfig defaults
DefaultDomain == "example.com"
DefaultRecord == "lb"

\* Name of the lease K8sClient reads and watches.
LeaderLease == "kube-controller-manager"

Nodes == {"n1", "n2"}

\* The name of node n in the cluster.
NodeName(n) == IF n = "n1" THEN "node1" ELSE "node10"

\* ------------------------------------------------------- net/netip, libdns

(* netip.ParseAddr followed by Addr.String(), on the literals the public_ip
   label is drawn from: ok = the literal parses, is6 = Addr.Is6(),
   text = Addr.String() (IPv6 is printed lower-case and compressed). *)
ParseAddr(s) ==
    CASE s = "10.0.0.1" -> [ok |-> TRUE, is6 |-> FALSE, text |-> "10.0.0.1"]
      [] s = "10.0.0.2" -> [ok |-> TRUE, is6 |-> FALSE, text |-> "10.0.0.2"]
      [] s = "2001:db8::1" -> [ok |-> TRUE, is6 |-> TRUE, text |-> "2001:db8::1"]
      [] s = "2001:DB8:0:0:0:0:0:1" -> [ok |-> TRUE, is6 |-> TRUE, text |-> "2001:db8::1"]
      [] OTHER -> [ok |-> FALSE, is6 |-> FALSE, text |-> ""]

\* The literals a node's public_ip label (or ExternalIP) holds in this model.
IPLiterals == {"10.0.0.1", "2001:db8::1", "2001:DB8:0:0:0:0:0:1", "not-an-ip"}

(* libdns.Address{Name, IP, TTL}.RR(): the record the DNS client is handed.
   The type is AAAA for an IPv6 address and A otherwise, the data is the
   address in canonical text. *)
AddressRR(name, addr, ttl) ==
    [Name |-> name,
     Type |-> IF addr.is6 THEN "AAAA" ELSE "A",
     Data |-> addr.text,
     TTL |-> ttl]


\* ------------------------------------------------------------------- state

VARIABLES
    cfg,        \* cfg[n]: the Config of the process on node n
    leader,     \* the node that holds cluster leadership
    changes,    \* leadership changes so far
    noise,      \* other orchestration events so far
    zone,       \* the records the DNS provider publishes for the zone
    settled,    \* settled[n]: the zone is as n's last read or upsert left it
    proc,       \* proc[n]: "running", "exited", "fatal" or "crashed"
    pc,         \* pc[n]: where the goroutine executing Run stands
    await,      \* await[n]: id of the pass that goroutine is blocked in, or 0
    started,    \* started[n]: passes invoked, by trigger; led: one of them has
                \* seen n lead since leadership last moved
    passes,     \* passes[n]: the invocations of CheckAndUpdateDNS in progress
    stream,     \* stream[n]: events delivered to n's watch and not yet read
    sub,        \* sub[n]: n's event subscription is open
    env,        \* env[n]: the environment the process on n was started in
    host,       \* host[n]: what the cluster tells the process on n about its node
    orchestration,  \* orchestration[n]: the adapter NewSentinel has built
    trace,      \* trace[n]: the steps of startup taken, writes to the Config included
    cookies,    \* InwxClient.cookies: "nil" or "set"
    ipc,        \* where the InwxClient stands: "idle", "entry" or "done"
    method,     \* the InwxClient operation in progress
    depth,      \* nested invocations of that operation
    wire,       \* logins and requests the operation has sent, with their answers
    result,     \* what the operation returned: "none", "ok" or "error"
    ops         \* InwxClient operations called so far

bootVars == <<env, host, orchestration, trace>>

sentinelVars == <<cfg, leader, changes, noise, zone, settled, proc, pc, await,
                  started, passes, stream, sub, bootVars>>

inwxVars == <<cookies, ipc, method, depth, wire, result, ops>>

vars == <<sentinelVars, inwxVars>>

clusterVars == <<leader, changes, noise>>

\* -------------------------------------------------------------- environment

\* The value of a variable that is not in the environment.
Unset == "(unset)"

(* The variables NewConfig and the configure functions read, named without
   the SENTINEL_ prefix that getEnv adds, and the content of the secret file
   /run/secrets/inwx_password (Unset: the file cannot be read). *)
EnvKeys ==
    {"DOMAIN", "RECORD", "LOG_LEVEL", "ORCHESTRATION", "ORCHESTRATION_TYPE",
     "DNS_PROVIDER", "INWX_USER", "INWX_PASSWORD", "BUNNY_API_KEY", "inwx_password"}

\* getEnv: the value of SENTINEL_<key> if it is set, the fallback otherwise.
getEnv(e, key, fallback) == IF e[key] # Unset THEN e[key] ELSE fallback

\* readSecret("/run/secrets/inwx_password")
readSecret(e) ==
    IF e["inwx_password"] # Unset
    THEN [err |-> FALSE, data |-> e["inwx_password"]]
    ELSE [err |-> TRUE, data |-> ""]

(* An environment with the two selectors given and the credentials of both
   providers present. *)
EnvWith(orchestrationType, dnsProvider) ==
    [k \in EnvKeys |->
        CASE k = "ORCHESTRATION_TYPE" -> orchestrationType
          [] k = "DNS_PROVIDER" -> dnsProvider
          [] k = "INWX_USER" -> "user"
          [] k = "INWX_PASSWORD" -> "password"
          [] k = "BUNNY_API_KEY" -> "key"
          [] OTHER -> Unset]

\* ------------------------------------------------------------ configuration

(* NewConfig, with the environment unset except for the two selectors. *)
NewConfig(orchestrationType, dnsProvider) ==
    [Domain |-> DefaultDomain,
     Record |-> DefaultRecord,
     RecordTTL |-> 0,
     ServerIP |-> "",
     LogLevel |-> "INFO",
     OrchestrationType |-> orchestrationType,
     DnsProvider |-> dnsProvider]

\* configureInwx / configureBunny writing the log level besides the TTL.
ConfigureDnsAndLogLevel(c) ==
    IF c.DnsProvider = DnsProviderInwx
    THEN [c EXCEPT !.RecordTTL = InwxRecordTTL, !.LogLevel = "DEBUG"]
    ELSE IF c.DnsProvider = DnsProviderBunny
    THEN [c EXCEPT !.RecordTTL = BunnyRecordTTL, !.LogLevel = "DEBUG"]
    ELSE c

(* configureInwx / configureBunny as NewSentinel's switch selects them: the
   one effect on the Config is RecordTTL, written before the credentials are
   looked at. No other provider has a configure function. *)
ConfigureDns(c) ==
    IF c.DnsProvider = DnsProviderInwx
    THEN [c EXCEPT !.RecordTTL = InwxRecordTTL]
    ELSE IF c.DnsProvider = DnsProviderBunny
    THEN [c EXCEPT !.RecordTTL = BunnyRecordTTL]
    ELSE c

(* NewSentinel on a node whose orchestration adapter resolves the public IP
   to the literal ip: the Config the Sentinel runs with. *)
NewSentinel(c, ip) == [ConfigureDns(c) EXCEPT !.ServerIP = ip]

(* The Config NewSentinel arrives at when the other of the two DNS providers
   is selected and everything else is the same. *)
OtherProvider(c) ==
    ConfigureDns([c EXCEPT !.DnsProvider = IF @ = DnsProviderInwx THEN DnsProviderBunny
                                           ELSE DnsProviderInwx])

\* NewConfig in the environment e.
NewConfigFromEnv(e) ==
    NewConfig(getEnv(e, "ORCHESTRATION_TYPE", OrchestrationTypeDockerSwarm),
              getEnv(e, "DNS_PROVIDER", DnsProviderInwx))

\* The Config before NewConfig has filled it.
NoConfig ==
    [Domain |-> "", Record |-> "", RecordTTL |-> 0, ServerIP |-> "", LogLevel |-> "",
     OrchestrationType |-> "", DnsProvider |-> ""]

(* The error of the switch on Config.DnsProvider in NewSentinel: "" when the
   provider is configured. configureInwx needs INWX_USER and a password from
   the secret file or, failing that, from INWX_PASSWORD; configureBunny needs
   BUNNY_API_KEY. *)
ConfigureDnsError(c, e) ==
    IF c.DnsProvider = DnsProviderInwx
    THEN IF getEnv(e, "INWX_USER", "") = "" THEN "INWX_USER not set"
         ELSE IF readSecret(e).err /\ getEnv(e, "INWX_PASSWORD", "") = ""
         THEN "INWX_PASSWORD not set and could not read from secret"
         ELSE ""
    ELSE IF c.DnsProvider = DnsProviderBunny
    THEN IF getEnv(e, "BUNNY_API_KEY", "") = "" THEN "BUNNY_API_KEY not set" ELSE ""
    ELSE "Unsupported DNS provider: " \o c.DnsProvider

\* The configure function the switch selects, "" when it selects none.
Configurer(c) ==
    IF c.DnsProvider = DnsProviderInwx THEN "configureInwx"
    ELSE IF c.DnsProvider = DnsProviderBunny THEN "configureBunny"
    ELSE ""

(* The constructor NewSentinel calls for Config.OrchestrationType, "" when
   the type is neither of the two it tests for. *)
AdapterConstructor(c) ==
    IF c.OrchestrationType = OrchestrationTypeDockerSwarm THEN "NewDockerClient"
    ELSE IF c.OrchestrationType = OrchestrationTypeKubernetes THEN "NewK8sClient"
    ELSE ""

\* The adapter a constructor returns; "nil" is the field left unassigned.
AdapterOf(constructor) ==
    IF constructor = "NewDockerClient" THEN "DockerClient"
    ELSE IF constructor = "NewK8sClient" THEN "K8sClient"
    ELSE "nil"

\* The steps of a startup that reaches Run with Config c.
BootTrace(c) ==
    <<"NewConfig", Configurer(c), "Config.RecordTTL", AdapterConstructor(c),
      "GetNodePublicIP", "Config.ServerIP">>

\* The zone named like the domain, without the dot.
ZoneOfDomain(c) == c.Domain

\* zone := s.Config.Domain + "."
ZoneOf(c) == c.Domain \o "."

\* ------------------------------------------------------------------ the zone

\* The record the zone holds before any Sentinel writes.
StaleRR == [Name |-> DefaultRecord, Type |-> "A", Data |-> "10.0.0.9", TTL |-> 3600]

OtherRR == [Name |-> "www", Type |-> "A", Data |-> "10.0.0.1", TTL |-> 3600]

\* Zone contents the processes start from.
InitialZones == { <<>>, <<StaleRR>>, <<OtherRR, StaleRR>> }

(* The scan of updateDNS: the data of the first record named like the
   configured record and of type "A"; "" when there is none. *)
RECURSIVE CurrentIP(_, _)
CurrentIP(records, name) ==
    IF records = <<>> THEN ""
    ELSE IF Head(records).Name = name /\ Head(records).Type = "A"
         THEN Head(records).Data
         ELSE CurrentIP(Tail(records), name)

\* newRecords with the fully qualified name when the provider is bunny.
NewRecordsBunnyFqdn(c) ==
    << AddressRR(IF c.DnsProvider = DnsProviderBunny
                 THEN c.Record \o "." \o c.Domain ELSE c.Record,
                 ParseAddr(c.ServerIP), c.RecordTTL) >>

(* newRecords of updateDNS: one libdns.Address built from the Config.
   Defined when the ServerIP parses; netip.MustParseAddr panics otherwise. *)
NewRecords(c) ==
    << AddressRR(c.Record, ParseAddr(c.ServerIP), c.RecordTTL) >>

SameKey(a, b) == a.Name = b.Name /\ a.Type = b.Type

(* DnsClient.SetRecords: for every (name, type) of the input the zone ends up
   holding exactly the input's records of that name and type. *)
SetRecords(z, records) ==
    SelectSeq(z, LAMBDA r : \A i \in 1..Len(records) : ~SameKey(r, records[i]))
        \o records

\* ------------------------------------------------------------ orchestration

OrchOf(n) == cfg[n].OrchestrationType

\* Every node of one cluster runs the same orchestration backend.
ClusterOrch == OrchOf(CHOOSE n \in Nodes : TRUE)

(* The ways a leadership query fails. Swarm: the node id cannot be fetched,
   the /nodes request fails, its body cannot be read, or it is not JSON.
   Kubernetes: NODE_NAME is unset, the lease cannot be fetched, or the lease
   has no holder identity. *)
QueryFailures(orch) ==
    IF orch = OrchestrationTypeDockerSwarm
    THEN {"no-node-id", "request-error", "read-error", "bad-json"}
    ELSE {"no-node-name", "lease-error", "no-holder"}

\* IsSwarmLeader answering true when the query fails.
IsSwarmLeaderOnError(n, query) == query # "ok" \/ leader = n

\* IsSwarmLeader without the test of ManagerStatus.Leader.
IsSwarmLeaderAnyManager(n, query) == query = "ok"

(* DockerClient.IsSwarmLeader: false when the node id or the node list cannot
   be fetched or parsed; otherwise whether the list marks this node as the
   manager leader. *)
IsSwarmLeader(n, query) == query = "ok" /\ leader = n

\* strings.HasPrefix
HasPrefix(s, prefix) ==
    /\ Len(s) >= Len(prefix)
    /\ SubSeq(s, 1, Len(prefix)) = prefix

(* The holder identity of the kube-controller-manager lease when the
   controller manager of node n leads: the node's name, an underscore and a
   unique suffix. *)
HolderIdentity(n) == NodeName(n) \o "_" \o "4c7d9e"

\* K8sClient.IsLeader comparing the holder identity with the bare node name.
K8sIsLeaderBareName(n, query) ==
    /\ query = "ok"
    /\ host[n].NODE_NAME # Unset
    /\ HasPrefix(HolderIdentity(leader), host[n].NODE_NAME)

(* K8sClient.IsLeader: false when NODE_NAME is unset, when the lease cannot be
   fetched and when it has no holder; otherwise whether the holder identity
   starts with this node's name followed by an underscore. *)
K8sIsLeader(n, query) ==
    /\ query = "ok"
    /\ host[n].NODE_NAME # Unset
    /\ HasPrefix(HolderIdentity(leader), host[n].NODE_NAME \o "_")

IsLeader(n, query) ==
    IF OrchOf(n) = OrchestrationTypeDockerSwarm
    THEN IsSwarmLeader(n, query)
    ELSE K8sIsLeader(n, query)


\* ------------------------------------------------------------------- events

(* One line of the swarm event stream (GET /events, scope swarm): text is
   "json" for a line that parses as a DockerEvent, "empty" for an empty line,
   "garbage" for one that does not parse and "too-long" for one that does not
   fit the buffer of the bufio.Scanner (64 KiB by default). attr names what the event
   reports as changed in Actor.Attributes: "leader" for a change of the
   manager leader, "availability" for a node drained or activated. *)
SwarmLine(text, type, action, attr) ==
    [text |-> text, Type |-> type, Action |-> action, Attr |-> attr]

(* One update the lease informer hands to UpdateFunc: the lease's name and
   the holder identity before and after. *)
LeaseUpdate(name, old, new) == [Name |-> name, Old |-> old, New |-> new]

\* What a node's watch is sent when leadership moves from old to new.
LeaderEvent(orch, old, new) ==
    IF orch = OrchestrationTypeDockerSwarm
    THEN SwarmLine("json", "node", "update", "leader")
    ELSE LeaseUpdate(LeaderLease, old, new)

\* What a node's watch is sent besides leadership changes.
NoiseEvents(orch) ==
    IF orch = OrchestrationTypeDockerSwarm
    THEN { SwarmLine("json", "service", "update", ""),
           SwarmLine("json", "node", "create", ""),
           SwarmLine("json", "node", "update", "availability"),
           SwarmLine("empty", "", "", ""),
           SwarmLine("garbage", "", "", ""),
           SwarmLine("too-long", "", "", "") }
    ELSE { LeaseUpdate(LeaderLease, leader, leader),
           LeaseUpdate("kube-scheduler", "n1", "n2") }

\* The scanner loop invoking the callback for every event of type node.
SwarmInvokesAnyNodeEvent(line) ==
    /\ line.text # "empty"
    /\ line.text # "garbage"
    /\ line.Type = "node"

(* DockerClient.WatchEvents, the body of the scanner loop: whether the line
   makes it invoke the callback. *)
SwarmInvokes(line) ==
    /\ line.text # "empty"
    /\ line.text # "garbage"
    /\ line.Type = "node"
    /\ line.Action = "update"

(* DockerClient.WatchEvents, the condition of the scanner loop: scanner.Scan()
   returns false, with bufio.ErrTooLong, at a line that does not fit its
   buffer, and the loop ends. *)
ScannerStops(orch, e) ==
    /\ orch = OrchestrationTypeDockerSwarm
    /\ e.text = "too-long"

(* K8sClient.WatchEvents, UpdateFunc: whether the update makes it invoke the
   callback. *)
K8sInvokes(u) == u.Name = LeaderLease /\ u.Old # u.New

Invokes(orch, e) ==
    IF orch = OrchestrationTypeDockerSwarm THEN SwarmInvokes(e) ELSE K8sInvokes(e)

\* The event reaches every watch whose subscription is open.
Deliver(e) ==
    stream' = [n \in Nodes |-> IF sub[n] THEN Append(stream[n], e[n]) ELSE stream[n]]

\* ------------------------------------------------------------------ cluster

(* Leadership moves to another manager node; the orchestration backend
   reports it on its event stream. *)
LeaderChange(new) ==
    /\ changes < MaxChanges
    /\ new # leader
    /\ leader' = new
    /\ changes' = changes + 1
    /\ Deliver([n \in Nodes |-> LeaderEvent(OrchOf(n), leader, new)])
    /\ started' = [n \in Nodes |-> [started[n] EXCEPT !.led = FALSE]]
    /\ UNCHANGED <<inwxVars, bootVars, cfg, noise, zone, settled, proc, pc, await, passes, sub>>

(* The backend reports something that is no leadership change. *)
OtherEvent(k) ==
    /\ noise < MaxNoise
    /\ noise' = noise + 1
    /\ k \in NoiseEvents(ClusterOrch)
    /\ Deliver([n \in Nodes |-> k])
    /\ UNCHANGED <<inwxVars, bootVars, cfg, leader, changes, zone, settled, proc, pc, await, started, passes, sub>>


\* ------------------------------------------------------------------- passes

(* One invocation of Sentinel.CheckAndUpdateDNS.
   step:      "check" before IsLeader, "get" before GetRecords, "set" before
              SetRecords, "done" once it has returned, "panic" if it panicked
   query:     how the leadership query went: "ok" or one of QueryFailures
   isLeader:  what IsLeader returned
   byLeader:  whether the node did hold leadership when IsLeader was asked
   calls:     the DnsClient calls issued, in order
   other:     step, isLeader, currentIP and calls of the same invocation in a
              Sentinel configured with the other DNS provider, which is given
              the same answers *)
NewPass(id, trigger) ==
    [id |-> id, trigger |-> trigger, step |-> "check", query |-> "",
     isLeader |-> FALSE, byLeader |-> FALSE, currentIP |-> "", calls |-> <<>>,
     other |-> [step |-> "check", isLeader |-> FALSE, currentIP |-> "", calls |-> <<>>]]

GetCall(z, ok) == [op |-> "GetRecords", zone |-> z, records |-> <<>>, ok |-> ok]

SetCall(z, records, ok) == [op |-> "SetRecords", zone |-> z, records |-> records, ok |-> ok]

Replace(n, p, q) == passes' = [passes EXCEPT ![n] = (@ \ {p}) \cup {q}]

\* CheckAndUpdateDNS without the test of IsLeader.
CheckAndUpdateDNSUngated(p, isLeader) ==
    [p EXCEPT !.isLeader = isLeader, !.step = "get"]

\* CheckAndUpdateDNS of a leader writing without reading the records again.
CheckAndUpdateDNSFromCache(p, isLeader) ==
    [p EXCEPT !.isLeader = isLeader,
              !.step = IF isLeader THEN "set" ELSE "done"]

(* CheckAndUpdateDNS: updateDNS is entered only when IsLeader returned true. *)
CheckAndUpdateDNS(p, isLeader) ==
    [p EXCEPT !.isLeader = isLeader,
              !.step = IF isLeader THEN "get" ELSE "done"]

\* updateDNS writing the record whether or not it differs from the ServerIP.
UpdateDNSCompareAlwaysSet(c, p, records) ==
    [p EXCEPT !.currentIP = CurrentIP(records, c.Record),
              !.step = IF ParseAddr(c.ServerIP).ok THEN "set" ELSE "done"]

(* updateDNS after GetRecords returned records without error: the scan, the
   comparison with Config.ServerIP and, when they differ, the construction of
   the new record, which panics on a ServerIP that does not parse. *)
UpdateDNSCompare(c, p, records) ==
    LET currentIP == CurrentIP(records, c.Record)
    IN  [p EXCEPT !.currentIP = currentIP,
                  !.step = IF currentIP = c.ServerIP THEN "done"
                           ELSE IF ParseAddr(c.ServerIP).ok THEN "set"
                           ELSE "panic"]

\* A panic in the goroutine executing Run ends the process.
Halt(n, how) ==
    /\ proc' = [proc EXCEPT ![n] = how]
    /\ pc' = [pc EXCEPT ![n] = "gone"]
    /\ await' = [await EXCEPT ![n] = 0]
    /\ stream' = [stream EXCEPT ![n] = <<>>]
    /\ sub' = [sub EXCEPT ![n] = FALSE]

(* CheckAndUpdateDNS asks the orchestration adapter whether this node leads. *)
PassCheck(n, p, query) ==
    /\ proc[n] = "running"
    /\ p \in passes[n]
    /\ p.step = "check"
    /\ Replace(n, p, [CheckAndUpdateDNS(p, IsLeader(n, query))
                        EXCEPT !.query = query, !.byLeader = (leader = n),
                               !.other = CheckAndUpdateDNS(@, IsLeader(n, query))])
    /\ started' = [started EXCEPT ![n].led = @ \/ IsLeader(n, query)]
    /\ UNCHANGED <<inwxVars, bootVars, cfg, clusterVars, zone, settled, proc, pc, await, stream, sub>>

(* updateDNS calls GetRecords; on an error it logs and returns. *)
PassGetRecords(n, p, ok) ==
    /\ proc[n] = "running"
    /\ p \in passes[n]
    /\ p.step = "get"
    /\ LET called == [p EXCEPT !.calls = Append(@, GetCall(ZoneOf(cfg[n]), ok))]
           q == IF ok THEN UpdateDNSCompare(cfg[n], called, zone)
                ELSE [called EXCEPT !.step = "done"]
           c == OtherProvider(cfg[n])
           calledOther == [p.other EXCEPT !.calls = Append(@, GetCall(ZoneOf(c), ok))]
           other == IF p.other.step # "get" THEN p.other
                    ELSE IF ok THEN UpdateDNSCompare(c, calledOther, zone)
                    ELSE [calledOther EXCEPT !.step = "done"]
       IN  /\ Replace(n, p, [q EXCEPT !.other = other])
           /\ settled' = [settled EXCEPT ![n] = @ \/ (ok /\ q.step = "done")]
           /\ IF q.step = "panic"
              THEN Halt(n, "crashed")
              ELSE UNCHANGED <<proc, pc, await, stream, sub>>
    /\ UNCHANGED <<inwxVars, bootVars, cfg, clusterVars, zone, started>>

\* updateDNS calling SetRecords again, once, when the call has failed.
PassSetRecordsRetrying(n, p, ok) ==
    /\ proc[n] = "running"
    /\ p \in passes[n]
    /\ p.step = "set"
    /\ LET z == ZoneOf(cfg[n])
           records == NewRecords(cfg[n])
           retry == ~ok /\ Len(p.calls) < 3
       IN  /\ Replace(n, p, [p EXCEPT !.calls = Append(@, SetCall(z, records, ok)),
                                      !.step = IF retry THEN "set" ELSE "done"])
           /\ zone' = IF ok THEN SetRecords(zone, records) ELSE zone
           /\ settled' = IF ok /\ zone' # zone
                         THEN [m \in Nodes |-> m = n]
                         ELSE [settled EXCEPT ![n] = @ \/ ok]
    /\ UNCHANGED <<inwxVars, bootVars, cfg, clusterVars, proc, pc, await, started, stream, sub>>

(* updateDNS calls SetRecords with the one new record and logs the outcome. *)
PassSetRecords(n, p, ok) ==
    /\ proc[n] = "running"
    /\ p \in passes[n]
    /\ p.step = "set"
    /\ LET z == ZoneOf(cfg[n])
           records == NewRecords(cfg[n])
           c == OtherProvider(cfg[n])
           other == IF p.other.step # "set" THEN p.other
                    ELSE [p.other EXCEPT
                            !.calls = Append(@, SetCall(ZoneOf(c), NewRecords(c), ok)),
                            !.step = "done"]
       IN  /\ Replace(n, p, [p EXCEPT !.calls = Append(@, SetCall(z, records, ok)),
                                      !.step = "done",
                                      !.other = other])
           /\ zone' = IF ok THEN SetRecords(zone, records) ELSE zone
           /\ settled' = IF ok /\ zone' # zone
                         THEN [m \in Nodes |-> m = n]
                         ELSE [settled EXCEPT ![n] = @ \/ ok]
    /\ UNCHANGED <<inwxVars, bootVars, cfg, clusterVars, proc, pc, await, started, stream, sub>>


\* ---------------------------------------------------------------- processes

(* A synchronous call of CheckAndUpdateDNS: the caller is blocked until the
   invocation returns. *)
Call(n, trigger) ==
    LET id == started[n].startup + started[n].event + 1
    IN  /\ passes' = [passes EXCEPT ![n] = @ \cup {NewPass(id, trigger)}]
        /\ started' = [started EXCEPT ![n][trigger] = @ + 1]
        /\ await' = [await EXCEPT ![n] = id]

\* ----------------------------------------------------------- the node's IP

\* The types of a Node's status addresses.
NodeInternalIP == "InternalIP"
NodeExternalIP == "ExternalIP"
NodeHostName == "Hostname"

NodeAddress(type, address) == [Type |-> type, Address |-> address]

(* A Node object as the adapters read it: its labels and, in Kubernetes, its
   status addresses. *)
NodeObject(labels, addresses) == [Labels |-> labels, Addresses |-> addresses]

\* The labels of a node without and with the public_ip label.
Unlabelled == [k \in {"role"} |-> "manager"]
Labelled(ip) == [k \in {"role", "public_ip"} |-> IF k = "role" THEN "manager" ELSE ip]

(* What the process on a node is given: NODE_NAME (set from spec.nodeName in
   the manifest, or missing), whether the API answers the request for the
   Node, and the Node it answers with. *)
Host(nodeName, lookup, node) == [NODE_NAME |-> nodeName, lookup |-> lookup, Node |-> node]

\* The host of node n when its public_ip label holds ip and the API answers.
HostOf(n, ip) == Host(NodeName(n), "ok", NodeObject(Labelled(ip), <<>>))

\* What an adapter returns for the IP: the address, or an error.
PublicIP(ip, err) == [ip |-> ip, err |-> err]

\* K8sClient.GetNodeName: the value of NODE_NAME, an error when it is empty.
GetNodeName(h) ==
    IF h.NODE_NAME = Unset \/ h.NODE_NAME = ""
    THEN [name |-> "", err |-> "NODE_NAME environment variable not set"]
    ELSE [name |-> h.NODE_NAME, err |-> ""]

\* The loop over node.Status.Addresses: the first address of type ExternalIP.
RECURSIVE FirstExternalIP(_)
FirstExternalIP(addresses) ==
    IF addresses = <<>> THEN PublicIP("", "no external IP found for node")
    ELSE IF Head(addresses).Type = NodeExternalIP
    THEN PublicIP(Head(addresses).Address, "")
    ELSE FirstExternalIP(Tail(addresses))

\* K8sClient.GetNodePublicIP taking the first status address whatever its type.
K8sGetNodePublicIPAnyAddress(h) ==
    IF GetNodeName(h).err # "" THEN PublicIP("", GetNodeName(h).err)
    ELSE IF h.lookup # "ok" THEN PublicIP("", "error getting node")
    ELSE IF "public_ip" \in DOMAIN h.Node.Labels
    THEN PublicIP(h.Node.Labels["public_ip"], "")
    ELSE IF h.Node.Addresses # <<>>
    THEN PublicIP(Head(h.Node.Addresses).Address, "")
    ELSE PublicIP("", "no external IP found for node")

(* K8sClient.GetNodePublicIP: the node name, then the Node of that name, then
   the public_ip label if the Node has one, then the status addresses. *)
K8sGetNodePublicIP(h) ==
    IF GetNodeName(h).err # "" THEN PublicIP("", GetNodeName(h).err)
    ELSE IF h.lookup # "ok" THEN PublicIP("", "error getting node")
    ELSE IF "public_ip" \in DOMAIN h.Node.Labels
    THEN PublicIP(h.Node.Labels["public_ip"], "")
    ELSE FirstExternalIP(h.Node.Addresses)

(* DockerClient.GetNodePublicIP: the node id from /info, then the public_ip
   label of that node's spec; a missing label is an error. *)
SwarmGetNodePublicIP(h) ==
    IF h.lookup # "ok" THEN PublicIP("", "failed to get node ID")
    ELSE IF "public_ip" \in DOMAIN h.Node.Labels
    THEN PublicIP(h.Node.Labels["public_ip"], "")
    ELSE PublicIP("", "failed to get public_ip label")

GetNodePublicIP(adapter, h) ==
    IF adapter = "K8sClient" THEN K8sGetNodePublicIP(h) ELSE SwarmGetNodePublicIP(h)

(* main calls NewConfig. *)
MainNewConfig(n) ==
    /\ proc[n] = "running"
    /\ pc[n] = "main"
    /\ cfg' = [cfg EXCEPT ![n] = NewConfigFromEnv(env[n])]
    /\ trace' = [trace EXCEPT ![n] = Append(@, "NewConfig")]
    /\ pc' = [pc EXCEPT ![n] = "dns"]
    /\ UNCHANGED <<inwxVars, env, host, orchestration, clusterVars, zone, settled, proc,
                   await, started, passes, stream, sub>>

(* NewSentinel, the switch on Config.DnsProvider: the configure function
   writes RecordTTL and then looks for the credentials; an error, or a
   provider that is neither inwx nor bunny, is fatal. *)
NewSentinelDns(n) ==
    /\ proc[n] = "running"
    /\ pc[n] = "dns"
    /\ cfg' = [cfg EXCEPT ![n] = ConfigureDns(@)]
    /\ trace' = [trace EXCEPT ![n] =
                    IF Configurer(cfg[n]) = "" THEN @
                    ELSE @ \o <<Configurer(cfg[n]), "Config.RecordTTL">>]
    /\ IF ConfigureDnsError(cfg[n], env[n]) # ""
       THEN Halt(n, "fatal")
       ELSE /\ pc' = [pc EXCEPT ![n] = "orch"]
            /\ UNCHANGED <<proc, await, stream, sub>>
    /\ UNCHANGED <<inwxVars, env, host, orchestration, clusterVars, zone, settled, started, passes>>

(* NewSentinel, the choice of the orchestration adapter: NewDockerClient for
   swarm, NewK8sClient for kubernetes, whose error is fatal; for any other
   type the field stays nil. *)
NewSentinelOrchestration(n, ok) ==
    /\ proc[n] = "running"
    /\ pc[n] = "orch"
    /\ LET constructor == AdapterConstructor(cfg[n])
       IN  /\ ok \/ constructor = "NewK8sClient"
           /\ trace' = [trace EXCEPT ![n] =
                           IF constructor = "" THEN @ ELSE Append(@, constructor)]
           /\ IF ok
              THEN /\ orchestration' = [orchestration EXCEPT ![n] = AdapterOf(constructor)]
                   /\ pc' = [pc EXCEPT ![n] = "ip"]
                   /\ UNCHANGED <<proc, await, stream, sub>>
              ELSE /\ Halt(n, "fatal")
                   /\ UNCHANGED orchestration
    /\ UNCHANGED <<inwxVars, env, host, cfg, clusterVars, zone, settled, started, passes>>

(* NewSentinel, sentinel.orchestration.GetNodePublicIP(): a call on the nil
   adapter panics; an error of the adapter is fatal; otherwise the address is
   stored in Config.ServerIP and NewSentinel returns. main then starts Run. *)
NewSentinelServerIP(n) ==
    /\ proc[n] = "running"
    /\ pc[n] = "ip"
    /\ IF orchestration[n] = "nil"
       THEN /\ Halt(n, "crashed")
            /\ UNCHANGED <<cfg, trace>>
       ELSE LET publicIP == GetNodePublicIP(orchestration[n], host[n])
            IN  IF publicIP.err # ""
                THEN /\ Halt(n, "fatal")
                     /\ trace' = [trace EXCEPT ![n] = Append(@, "GetNodePublicIP")]
                     /\ UNCHANGED cfg
                ELSE /\ cfg' = [cfg EXCEPT ![n].ServerIP = publicIP.ip]
                     /\ trace' = [trace EXCEPT ![n] =
                                     @ \o <<"GetNodePublicIP", "Config.ServerIP">>]
                     /\ pc' = [pc EXCEPT ![n] = "start"]
                     /\ UNCHANGED <<proc, await, stream, sub>>
    /\ UNCHANGED <<inwxVars, env, host, orchestration, clusterVars, zone, settled, started, passes>>

(* GetConfigurationErrors: the Kubernetes adapter returns the empty list; the
   swarm adapter validates its preconditions and may report a problem. *)
ConfigurationErrors(orch) ==
    IF orch = OrchestrationTypeKubernetes
    THEN { <<>> }
    ELSE { <<>>, <<"Docker is not running in swarm mode">> }

\* Run going on to the initial check whatever GetConfigurationErrors returned.
RunStartLenient(n, configErrs) ==
    /\ proc[n] = "running"
    /\ pc[n] = "start"
    /\ configErrs \in ConfigurationErrors(OrchOf(n))
    /\ trace' = [trace EXCEPT ![n] = Append(@, "GetConfigurationErrors") \o configErrs]
    /\ pc' = [pc EXCEPT ![n] = "initial"]
    /\ UNCHANGED <<inwxVars, env, host, orchestration, cfg, clusterVars, zone, settled, started,
                   proc, await, passes, stream, sub>>

(* Run, up to the initial check: a non-empty list of configuration errors is
   fatal. *)
RunStart(n, configErrs) ==
    /\ proc[n] = "running"
    /\ pc[n] = "start"
    /\ configErrs \in ConfigurationErrors(OrchOf(n))
    /\ trace' = [trace EXCEPT ![n] = Append(@, "GetConfigurationErrors") \o configErrs]
    /\ IF Len(configErrs) > 0
       THEN /\ Halt(n, "fatal")
            /\ UNCHANGED passes
       ELSE /\ pc' = [pc EXCEPT ![n] = "initial"]
            /\ UNCHANGED <<proc, await, passes, stream, sub>>
    /\ UNCHANGED <<inwxVars, env, host, orchestration, cfg, clusterVars, zone, settled, started>>

\* CheckAndUpdateDNS started with a go statement: the caller does not wait.
Go(n, trigger) ==
    LET id == started[n].startup + started[n].event + 1
    IN  /\ passes' = [passes EXCEPT ![n] = @ \cup {NewPass(id, trigger)}]
        /\ started' = [started EXCEPT ![n][trigger] = @ + 1]
        /\ UNCHANGED await

\* Run with the initial check started in a goroutine of its own.
RunInitialCheckDetached(n) ==
    /\ proc[n] = "running"
    /\ pc[n] = "initial"
    /\ await[n] = 0
    /\ Go(n, "startup")
    /\ pc' = [pc EXCEPT ![n] = "open"]
    /\ UNCHANGED <<inwxVars, bootVars, cfg, clusterVars, zone, settled, proc, stream, sub>>

(* Run: "Initial check", s.CheckAndUpdateDNS() *)
RunInitialCheck(n) ==
    /\ proc[n] = "running"
    /\ pc[n] = "initial"
    /\ await[n] = 0
    /\ Call(n, "startup")
    /\ UNCHANGED <<inwxVars, bootVars, cfg, clusterVars, zone, settled, proc, pc, stream, sub>>

(* An invocation of CheckAndUpdateDNS returns to its caller: Run goes on to
   WatchEvents, the watch goes on to its next event. *)
Return(n, p) ==
    /\ proc[n] = "running"
    /\ p \in passes[n]
    /\ p.step = "done"
    /\ passes' = [passes EXCEPT ![n] = @ \ {p}]
    /\ IF await[n] = p.id
       THEN /\ await' = [await EXCEPT ![n] = 0]
            /\ pc' = [pc EXCEPT ![n] = IF @ = "initial" THEN "open" ELSE @]
       ELSE UNCHANGED <<await, pc>>
    /\ UNCHANGED <<inwxVars, bootVars, cfg, clusterVars, zone, settled, proc, started, stream, sub>>

(* Run enters WatchEvents. Swarm: the events request is sent, and WatchEvents
   returns at once if it fails. Kubernetes: the handler is registered with the
   informer, and WatchEvents returns at once if that fails. When WatchEvents
   returns, Run returns and its goroutine ends. *)
WatchOpen(n, ok) ==
    /\ proc[n] = "running"
    /\ pc[n] = "open"
    /\ await[n] = 0
    /\ pc' = [pc EXCEPT ![n] = IF ok THEN "scan" ELSE "returned"]
    /\ sub' = [sub EXCEPT ![n] = ok]
    /\ UNCHANGED <<inwxVars, bootVars, cfg, clusterVars, zone, settled, proc, await, started, passes, stream>>

\* The watch with the callback started in a goroutine of its own.
WatchScanDetached(n) ==
    /\ proc[n] = "running"
    /\ pc[n] = "scan"
    /\ await[n] = 0
    /\ stream[n] # <<>>
    /\ stream' = [stream EXCEPT ![n] = Tail(@)]
    /\ IF Invokes(OrchOf(n), Head(stream[n]))
       THEN Go(n, "event")
       ELSE UNCHANGED <<await, started, passes>>
    /\ UNCHANGED <<inwxVars, bootVars, cfg, clusterVars, zone, settled, proc, pc, sub>>

(* The watch takes the next event and invokes the callback if the event
   qualifies: the body of the scanner loop (swarm), UpdateFunc (Kubernetes).
   When the scanner stops at the line, WatchEvents logs the error, closes the
   response body and returns, and Run returns with it. *)
WatchScan(n) ==
    /\ proc[n] = "running"
    /\ pc[n] = "scan"
    /\ await[n] = 0
    /\ stream[n] # <<>>
    /\ IF ScannerStops(OrchOf(n), Head(stream[n]))
       THEN /\ stream' = [stream EXCEPT ![n] = <<>>]
            /\ sub' = [sub EXCEPT ![n] = FALSE]
            /\ pc' = [pc EXCEPT ![n] = "returned"]
            /\ UNCHANGED <<await, started, passes>>
       ELSE /\ stream' = [stream EXCEPT ![n] = Tail(@)]
            /\ IF Invokes(OrchOf(n), Head(stream[n]))
               THEN Call(n, "event")
               ELSE UNCHANGED <<await, started, passes>>
            /\ UNCHANGED <<pc, sub>>
    /\ UNCHANGED <<inwxVars, bootVars, cfg, clusterVars, zone, settled, proc>>

(* Swarm: the connection to the Docker API is lost; lines already received
   can still be read. *)
StreamDrop(n) ==
    /\ proc[n] = "running"
    /\ OrchOf(n) = OrchestrationTypeDockerSwarm
    /\ sub[n]
    /\ sub' = [sub EXCEPT ![n] = FALSE]
    /\ UNCHANGED <<inwxVars, bootVars, cfg, clusterVars, zone, settled, proc, pc, await, started, passes, stream>>

(* Swarm: scanner.Scan() returns false at the end of the stream; WatchEvents
   returns, and so does Run. main keeps waiting for a signal. *)
WatchEnd(n) ==
    /\ proc[n] = "running"
    /\ OrchOf(n) = OrchestrationTypeDockerSwarm
    /\ pc[n] = "scan"
    /\ await[n] = 0
    /\ stream[n] = <<>>
    /\ ~sub[n]
    /\ pc' = [pc EXCEPT ![n] = "returned"]
    /\ UNCHANGED <<inwxVars, bootVars, cfg, clusterVars, zone, settled, proc, await, started, passes, stream, sub>>

\* main receiving the signal only while no pass is in progress.
SignalBetweenPasses(n) ==
    /\ proc[n] = "running"
    /\ passes[n] = {}
    /\ proc' = [proc EXCEPT ![n] = "exited"]
    /\ await' = [await EXCEPT ![n] = 0]
    /\ stream' = [stream EXCEPT ![n] = <<>>]
    /\ sub' = [sub EXCEPT ![n] = FALSE]
    /\ UNCHANGED <<inwxVars, bootVars, cfg, clusterVars, zone, settled, started, passes, pc>>

(* main receives SIGINT or SIGTERM and returns: the process ends wherever its
   goroutine stands, and pc[n] keeps where that was. *)
Signal(n) ==
    /\ proc[n] = "running"
    /\ proc' = [proc EXCEPT ![n] = "exited"]
    /\ await' = [await EXCEPT ![n] = 0]
    /\ stream' = [stream EXCEPT ![n] = <<>>]
    /\ sub' = [sub EXCEPT ![n] = FALSE]
    /\ passes' = [passes EXCEPT ![n] = {}]
    /\ UNCHANGED <<inwxVars, bootVars, cfg, clusterVars, zone, settled, started, pc>>

\* --------------------------------------------------------------- InwxClient

(* NewInwxClient: a client without cookies, on which nothing has been called. *)
NewInwxClient ==
    /\ cookies = "nil"
    /\ ipc = "idle"
    /\ method = ""
    /\ depth = 0
    /\ wire = <<>>
    /\ result = "none"
    /\ ops = 0

\* The operations of the client that send a request with the session cookies.
InwxOps == {"GetRecordContent", "UpdateDNS"}

(* The outcome of one HTTP exchange with the provider: err names the step
   that failed ("send": the request got no response, "body": the response
   could not be read or parsed), and is "" when the response carried code. *)
Answer(err, code) == [err |-> err, code |-> code]

\* The response codes the client tells apart.
CommandOk == 1000
SessionExpired == 1500

\* Response codes of the provider that are neither of the two.
AuthFailed == 2200
ObjectMissing == 2303

(* What Login meets: the POST fails, the body cannot be read or parsed, the
   provider answers with a code other than 1000, or it answers 1000. *)
LoginAnswers ==
    { Answer("send", 0), Answer("body", 0), Answer("", AuthFailed), Answer("", CommandOk) }

(* What the request of an operation meets: the request fails, the body cannot
   be read or parsed, or the provider answers 1000 (done), 1500 (session
   expired) or another code. *)
RequestAnswers ==
    { Answer("send", 0), Answer("body", 0), Answer("", CommandOk),
      Answer("", SessionExpired), Answer("", ObjectMissing) }

\* The exchange produced a response with this code.
Answered(answer, code) == answer.err = "" /\ answer.code = code

InwxLoginEntry(answer) == [kind |-> "login", answer |-> answer]

InwxRequestEntry(answer) == [kind |-> "request", answer |-> answer]

(* GetRecordContent or UpdateDNS is called on the client. *)
InwxCall(o) ==
    /\ ipc = "idle"
    /\ ops < MaxOps
    /\ o \in InwxOps
    /\ method' = o
    /\ ops' = ops + 1
    /\ ipc' = "entry"
    /\ depth' = 1
    /\ wire' = <<>>
    /\ result' = "none"
    /\ UNCHANGED <<sentinelVars, cookies>>

\* The head of the operation, going on to the request whatever Login returned.
InwxLoginUnchecked(answer) ==
    /\ ipc = "entry"
    /\ cookies = "nil"
    /\ answer \in LoginAnswers
    /\ wire' = Append(wire, InwxLoginEntry(answer))
    /\ cookies' = "set"
    /\ UNCHANGED <<sentinelVars, ipc, result, method, depth, ops>>

(* The head of the operation: with no cookies it calls Login. Login stores
   the cookies of whatever response it got, before it looks at the response;
   the operation returns an error when Login does. *)
InwxLogin(answer) ==
    /\ ipc = "entry"
    /\ cookies = "nil"
    /\ answer \in LoginAnswers
    /\ wire' = Append(wire, InwxLoginEntry(answer))
    /\ cookies' = IF answer.err = "send" THEN "nil" ELSE "set"
    /\ IF Answered(answer, CommandOk)
       THEN UNCHANGED <<ipc, result>>
       ELSE ipc' = "done" /\ result' = "error"
    /\ UNCHANGED <<sentinelVars, method, depth, ops>>

\* The request of the operation, retried after a new login on every code
\* other than 1000.
InwxRequestRetryOnAnyCode(answer) ==
    /\ ipc = "entry"
    /\ cookies = "set"
    /\ answer \in RequestAnswers
    /\ wire' = Append(wire, InwxRequestEntry(answer))
    /\ IF answer.err = "" /\ answer.code # CommandOk
       THEN /\ depth < MaxDepth
            /\ cookies' = "nil"
            /\ depth' = depth + 1
            /\ UNCHANGED <<ipc, result>>
       ELSE /\ ipc' = "done"
            /\ result' = IF Answered(answer, CommandOk) THEN "ok" ELSE "error"
            /\ UNCHANGED <<cookies, depth>>
    /\ UNCHANGED <<sentinelVars, method, ops>>

\* The request of the operation, returning an error on the session-expired code.
InwxRequestNoRetry(answer) ==
    /\ ipc = "entry"
    /\ cookies = "set"
    /\ answer \in RequestAnswers
    /\ wire' = Append(wire, InwxRequestEntry(answer))
    /\ ipc' = "done"
    /\ result' = IF Answered(answer, CommandOk) THEN "ok" ELSE "error"
    /\ UNCHANGED <<sentinelVars, cookies, method, depth, ops>>

(* The request of the operation, sent with the cookies, and what follows its
   answer: 1000 returns the result, 1500 drops the cookies and returns what a
   nested invocation of the same operation returns, anything else returns an
   error. *)
InwxRequest(answer) ==
    /\ ipc = "entry"
    /\ cookies = "set"
    /\ answer \in RequestAnswers
    /\ wire' = Append(wire, InwxRequestEntry(answer))
    /\ IF Answered(answer, SessionExpired)
       THEN /\ depth < MaxDepth
            /\ cookies' = "nil"
            /\ depth' = depth + 1
            /\ UNCHANGED <<ipc, result>>
       ELSE /\ ipc' = "done"
            /\ result' = IF Answered(answer, CommandOk) THEN "ok" ELSE "error"
            /\ UNCHANGED <<cookies, depth>>
    /\ UNCHANGED <<sentinelVars, method, ops>>

(* The operation returns to its caller, through every nested invocation. *)
InwxReturn ==
    /\ ipc = "done"
    /\ ipc' = "idle"
    /\ depth' = 0
    /\ UNCHANGED <<sentinelVars, cookies, method, wire, result, ops>>

\* ------------------------------------------------------------ specification

\* The node whose Sentinel process Spec follows under every fault.
Subject == "n1"

\* Start(c, up): every node n in up runs a Sentinel with Config c[n].
Start(c, up) ==
    /\ cfg = c
    /\ leader \in Nodes
    /\ changes = 0
    /\ noise = 0
    /\ settled = [n \in Nodes |-> FALSE]
    /\ proc = [n \in Nodes |-> IF n \in up THEN "running" ELSE "exited"]
    /\ pc = [n \in Nodes |-> IF n \in up THEN "start" ELSE "gone"]
    /\ await = [n \in Nodes |-> 0]
    /\ started = [n \in Nodes |-> [startup |-> 0, event |-> 0, led |-> FALSE]]
    /\ passes = [n \in Nodes |-> {}]
    /\ stream = [n \in Nodes |-> <<>>]
    /\ sub = [n \in Nodes |-> FALSE]
    /\ env = [n \in Nodes |-> EnvWith(c[n].OrchestrationType, c[n].DnsProvider)]
    /\ host = [n \in Nodes |-> HostOf(n, c[n].ServerIP)]
    /\ orchestration = [n \in Nodes |-> AdapterOf(AdapterConstructor(c[n]))]
    /\ trace = [n \in Nodes |-> BootTrace(c[n])]
    /\ NewInwxClient

(* One Sentinel, on a node whose public IP is any of the literals, with either
   backend and either DNS provider, in front of any of the initial zones. *)
Init ==
    /\ \E orch \in {OrchestrationTypeDockerSwarm, OrchestrationTypeKubernetes},
          dns \in {DnsProviderInwx, DnsProviderBunny},
          ip \in IPLiterals :
          Start([n \in Nodes |-> NewSentinel(NewConfig(orch, dns), ip)], {Subject})
    /\ zone \in InitialZones

\* The public IPs of the nodes when every node runs a Sentinel.
ClusterIP == [n \in Nodes |-> IF n = "n1" THEN "10.0.0.1" ELSE "10.0.0.2"]

(* One Sentinel on every manager node, each with a valid public IP. *)
ClusterInit ==
    /\ \E orch \in {OrchestrationTypeDockerSwarm, OrchestrationTypeKubernetes} :
          Start([n \in Nodes |-> NewSentinel(NewConfig(orch, DnsProviderInwx), ClusterIP[n])],
                Nodes)
    /\ zone \in InitialZones

\* The steps a Sentinel process takes when every call it makes succeeds.
Step(n) ==
    \/ RunStart(n, <<>>)
    \/ RunInitialCheck(n)
    \/ WatchOpen(n, TRUE)
    \/ WatchScan(n)
    \/ \E p \in passes[n] :
          \/ PassCheck(n, p, "ok")
          \/ PassGetRecords(n, p, TRUE)
          \/ PassSetRecords(n, p, TRUE)
          \/ Return(n, p)

\* The steps it takes when a call fails or the event stream has ended.
FaultStep(n) ==
    \/ \E configErrs \in ConfigurationErrors(OrchOf(n)) \ {<<>>} : RunStart(n, configErrs)
    \/ WatchOpen(n, FALSE)
    \/ WatchEnd(n)
    \/ \E p \in passes[n] :
          \/ \E query \in QueryFailures(OrchOf(n)) : PassCheck(n, p, query)
          \/ PassGetRecords(n, p, FALSE)
          \/ PassSetRecords(n, p, FALSE)

\* What happens around the processes besides leadership changes.
Fault ==
    \/ \E k \in NoiseEvents(ClusterOrch) : OtherEvent(k)
    \/ \E n \in Nodes : StreamDrop(n)
    \/ \E n \in Nodes : Signal(n)

Next ==
    \/ \E n \in Nodes : Step(n)
    \/ \E n \in Nodes : FaultStep(n)
    \/ \E new \in Nodes : LeaderChange(new)
    \/ Fault

ClusterNext ==
    \/ \E n \in Nodes : Step(n)
    \/ \E new \in Nodes : LeaderChange(new)

Spec == Init /\ [][Next]_vars

ClusterSpec == ClusterInit /\ [][ClusterNext]_vars

\* An environment given by the variables the startup depends on.
Env(orch, orchType, dns, user, password, secret, key) ==
    [k \in EnvKeys |->
        CASE k = "ORCHESTRATION" -> orch
          [] k = "ORCHESTRATION_TYPE" -> orchType
          [] k = "DNS_PROVIDER" -> dns
          [] k = "INWX_USER" -> user
          [] k = "INWX_PASSWORD" -> password
          [] k = "inwx_password" -> secret
          [] k = "BUNNY_API_KEY" -> key
          [] OTHER -> Unset]

(* The settings of the two orchestration variables a process is started
   with: SENTINEL_ORCHESTRATION and SENTINEL_ORCHESTRATION_TYPE. *)
OrchestrationSettings ==
    { <<Unset, Unset>>,
      <<Unset, OrchestrationTypeDockerSwarm>>,
      <<Unset, OrchestrationTypeKubernetes>>,
      <<Unset, "nomad">>,
      <<OrchestrationTypeKubernetes, Unset>> }

(* The settings of the DNS variables: the provider, INWX_USER, INWX_PASSWORD,
   the secret file and BUNNY_API_KEY. The credentials of a provider vary
   where that provider is the one NewConfig selects. *)
DnsSettings ==
    { <<dns, user, password, secret, Unset>> :
        dns \in {Unset, DnsProviderInwx},
        user \in {Unset, "user"},
        password \in {Unset, "password"},
        secret \in {Unset, "password"} }
    \cup { <<DnsProviderBunny, Unset, Unset, Unset, key>> : key \in {Unset, "key"} }
    \cup { <<"route53", Unset, Unset, Unset, Unset>> }

\* The environments a process is started in.
StartupEnvs ==
    { Env(o[1], o[2], d[1], d[2], d[3], d[4], d[5]) :
        o \in OrchestrationSettings, d \in DnsSettings }

(* One process from the first statement of main, in any of the environments,
   in front of a zone that holds a stale address. *)
StartupInit ==
    /\ \E e \in StartupEnvs :
          env = [n \in Nodes |-> IF n = Subject THEN e ELSE EnvWith(Unset, Unset)]
    /\ \E lookup \in {"ok", "error"} :
          host = [n \in Nodes |-> [HostOf(n, ClusterIP[n]) EXCEPT !.lookup =
                                       IF n = Subject THEN lookup ELSE "ok"]]
    /\ cfg = [n \in Nodes |-> NoConfig]
    /\ orchestration = [n \in Nodes |-> "nil"]
    /\ trace = [n \in Nodes |-> <<>>]
    /\ leader \in Nodes
    /\ changes = 0
    /\ noise = 0
    /\ zone = <<StaleRR>>
    /\ settled = [n \in Nodes |-> FALSE]
    /\ proc = [n \in Nodes |-> IF n = Subject THEN "running" ELSE "exited"]
    /\ pc = [n \in Nodes |-> IF n = Subject THEN "main" ELSE "gone"]
    /\ await = [n \in Nodes |-> 0]
    /\ started = [n \in Nodes |-> [startup |-> 0, event |-> 0, led |-> FALSE]]
    /\ passes = [n \in Nodes |-> {}]
    /\ stream = [n \in Nodes |-> <<>>]
    /\ sub = [n \in Nodes |-> FALSE]
    /\ NewInwxClient

\* The steps of main up to the go statement that starts Run.
Boot(n) ==
    \/ MainNewConfig(n)
    \/ NewSentinelDns(n)
    \/ \E ok \in BOOLEAN : NewSentinelOrchestration(n, ok)
    \/ NewSentinelServerIP(n)

StartupNext ==
    \/ \E n \in Nodes : Boot(n)
    \/ Next

StartupSpec == StartupInit /\ [][StartupNext]_vars

(* The status addresses of a Node: none, internal only, an external address
   after an internal one, two external addresses, and an external address
   after a host name and an internal one. *)
AddressLists ==
    { <<>>,
      << NodeAddress(NodeInternalIP, "192.168.0.7") >>,
      << NodeAddress(NodeInternalIP, "192.168.0.7"), NodeAddress(NodeExternalIP, "10.0.0.1") >>,
      << NodeAddress(NodeExternalIP, "10.0.0.2"), NodeAddress(NodeExternalIP, "10.0.0.1") >>,
      << NodeAddress(NodeHostName, "node1"), NodeAddress(NodeInternalIP, "192.168.0.7"),
         NodeAddress(NodeExternalIP, "10.0.0.2") >> }

\* The labels of a Node: no public_ip label, one with an address, an empty one.
LabelSets == { Unlabelled, Labelled("2001:db8::1"), Labelled("") }

\* What the process may be given about its node.
Hosts(n) ==
    { Host(nodeName, lookup, NodeObject(labels, addresses)) :
        nodeName \in {Unset, NodeName(n)}, lookup \in {"ok", "error"},
        labels \in LabelSets, addresses \in AddressLists }

(* One process from the first statement of main to the return of NewSentinel,
   with either backend and either DNS provider, on any of the hosts. *)
PublicIPInit ==
    /\ \E orch \in {OrchestrationTypeDockerSwarm, OrchestrationTypeKubernetes},
          dns \in {DnsProviderInwx, DnsProviderBunny} :
          env = [n \in Nodes |-> EnvWith(orch, dns)]
    /\ \E h \in Hosts(Subject) :
          host = [n \in Nodes |-> IF n = Subject THEN h ELSE HostOf(n, ClusterIP[n])]
    /\ cfg = [n \in Nodes |-> NoConfig]
    /\ orchestration = [n \in Nodes |-> "nil"]
    /\ trace = [n \in Nodes |-> <<>>]
    /\ leader \in Nodes
    /\ changes = 0
    /\ noise = 0
    /\ zone = <<StaleRR>>
    /\ settled = [n \in Nodes |-> FALSE]
    /\ proc = [n \in Nodes |-> IF n = Subject THEN "running" ELSE "exited"]
    /\ pc = [n \in Nodes |-> IF n = Subject THEN "main" ELSE "gone"]
    /\ await = [n \in Nodes |-> 0]
    /\ started = [n \in Nodes |-> [startup |-> 0, event |-> 0, led |-> FALSE]]
    /\ passes = [n \in Nodes |-> {}]
    /\ stream = [n \in Nodes |-> <<>>]
    /\ sub = [n \in Nodes |-> FALSE]
    /\ NewInwxClient

PublicIPNext == \E n \in Nodes : Boot(n)

PublicIPSpec == PublicIPInit /\ [][PublicIPNext]_vars

(* An InwxClient on its own, in front of a provider that answers each login
   and each request in any of the ways the client distinguishes. *)
InwxInit ==
    /\ Start([n \in Nodes |-> NewSentinel(NewConfig(OrchestrationTypeDockerSwarm,
                                                     DnsProviderInwx), ClusterIP[n])], {})
    /\ zone = <<>>

InwxNext ==
    \/ \E o \in InwxOps : InwxCall(o)
    \/ \E answer \in LoginAnswers : InwxLogin(answer)
    \/ \E answer \in RequestAnswers : InwxRequest(answer)
    \/ InwxReturn

InwxSpec == InwxInit /\ [][InwxNext]_vars


\* ------------------------------------------------------------------- claims

\* The DnsClient calls of pass p with operation op, in order.
CallsOf(p, op) == SelectSeq(p.calls, LAMBDA c : c.op = op)

\* GetRecords of pass p returned without error.
GotRecords(p) == \E i \in 1..Len(p.calls) : p.calls[i].op = "GetRecords" /\ p.calls[i].ok

\* Pass p has ended, by returning or by panicking.
Ended(p) == p.step \in {"done", "panic"}

(* C1. Leader gating: a pass in which IsLeader returned false issues no
   DnsClient call, neither GetRecords nor SetRecords. *)
LeaderGating ==
    \A n \in Nodes : \A p \in passes[n] :
        (p.step # "check" /\ ~p.isLeader) => p.calls = <<>>

\* C1, witness: a pass has returned after IsLeader answered false.
LeaderGatingWitness ==
    \E n \in Nodes : \E p \in passes[n] :
        p.step = "done" /\ ~p.isLeader /\ p.calls = <<>>

(* C2. Convergence: a pass on a leader whose GetRecords succeeded and whose
   currentIP differs from Config.ServerIP issues exactly one SetRecords call,
   for zone Domain+".", with exactly one address record whose name is
   Config.Record, whose content is Config.ServerIP and whose TTL is
   Config.RecordTTL. *)
Convergence ==
    \A n \in Nodes : \A p \in passes[n] :
        (Ended(p) /\ p.isLeader /\ GotRecords(p) /\ p.currentIP # cfg[n].ServerIP)
        => LET sets == CallsOf(p, "SetRecords")
           IN  /\ Len(sets) = 1
               /\ sets[1].zone = cfg[n].Domain \o "."
               /\ Len(sets[1].records) = 1
               /\ sets[1].records[1].Name = cfg[n].Record
               /\ sets[1].records[1].Type \in {"A", "AAAA"}
               /\ sets[1].records[1].Data = cfg[n].ServerIP
               /\ sets[1].records[1].TTL = cfg[n].RecordTTL

(* C3. Idempotence: when nothing but the node's own successful upsert has
   changed the zone since the node's previous pass left it converged, the next
   pass finds currentIP equal to the desired IP and issues no SetRecords. *)
Idempotence ==
    \A n \in Nodes : \A p \in passes[n] : p.step = "set" => ~settled[n]

\* The address the managed record resolves to is the leader's public IP.
RecordAtLeader ==
    CurrentIP(zone, cfg[leader].Record) = ParseAddr(cfg[leader].ServerIP).text

(* C4. System-level convergence: once leadership has changed and every
   Sentinel has done all it is going to do without a further change, the
   managed record holds the leader's public IP. *)
SystemConvergence ==
    ( /\ changes >= 1
      /\ \A n \in Nodes : proc[n] = "running"
      /\ ~ENABLED (\E n \in Nodes : Step(n)) )
    => RecordAtLeader

\* Pass p of node n issues its SetRecords call in this step.
IssuesSetRecords(n, p) ==
    /\ p.step = "set"
    /\ \E q \in passes'[n] : q.id = p.id /\ Len(CallsOf(q, "SetRecords")) = 1

(* C5. Only the leader writes DNS: whenever an instance issues SetRecords it
   is the cluster leader at the moment of the call. *)
OnlyLeaderWrites ==
    [][\A n \in Nodes : \A p \in passes[n] : IssuesSetRecords(n, p) => leader = n]_vars

(* C5, amended. Whenever an instance issues SetRecords, it held leadership
   when that pass asked IsLeader, and IsLeader answered true. *)
LeaderWhenChecked ==
    \A n \in Nodes : \A p \in passes[n] :
        (p.step = "set" \/ CallsOf(p, "SetRecords") # <<>>) => (p.isLeader /\ p.byLeader)

\* C5, witness: a pass has issued SetRecords on a node that had lost
\* leadership by then.
LeaderWhenCheckedWitness ==
    \E n \in Nodes : \E p \in passes[n] :
        CallsOf(p, "SetRecords") # <<>> /\ p.byLeader /\ leader # n

(* C6. Watch restart: a process that is alive always has an event watch that
   is active or about to be entered; Run never ends while the process lives. *)
WatchRestart ==
    \A n \in Nodes : proc[n] = "running" => pc[n] # "returned"

(* C7. Event trigger: once the watch has been entered, every leadership
   change reaches the watch of every live process, where it produces a pass. *)
EventTrigger ==
    [][\A n \in Nodes :
          (proc[n] = "running" /\ pc[n] \in {"scan", "returned"} /\ leader' # leader)
          => Len(stream'[n]) = Len(stream[n]) + 1]_vars

(* C8. Startup trigger: Run invokes exactly one startup pass; WatchEvents is
   entered only after that pass has returned, and a pass triggered by an event
   exists only after it. *)
StartupTrigger ==
    \A n \in Nodes :
        /\ started[n].startup <= 1
        /\ started[n].event > 0 => started[n].startup = 1
        /\ proc[n] = "running" =>
              /\ pc[n] \in {"open", "scan", "returned"} =>
                    /\ started[n].startup = 1
                    /\ \A p \in passes[n] : p.trigger # "startup"
              /\ \A p \in passes[n] :
                    p.trigger = "event" => pc[n] \in {"scan", "returned"}

\* C8, witness: the watch has been entered and an event has triggered a pass.
StartupTriggerWitness ==
    \E n \in Nodes : \E p \in passes[n] :
        proc[n] = "running" /\ pc[n] = "scan" /\ p.trigger = "event"

(* C9. Passes never overlap: a process has at most one invocation of
   CheckAndUpdateDNS in progress. *)
PassesNeverOverlap ==
    \A n \in Nodes : Cardinality(passes[n]) <= 1

\* C9, witness: a qualifying event is waiting while a pass is at a DnsClient
\* call.
PassesNeverOverlapWitness ==
    \E n \in Nodes : \E p \in passes[n] :
        /\ p.step \in {"get", "set"}
        /\ stream[n] # <<>>
        /\ Invokes(OrchOf(n), Head(stream[n]))

(* C10. No pass ends the process: whatever IsLeader, GetRecords and
   SetRecords return and whatever Config.ServerIP holds, the process survives
   the pass. *)
PassNeverCrashes ==
    \A n \in Nodes : proc[n] # "crashed"

(* C11. IsLeader never reports leadership on a failed query: whichever step
   of the query fails, on either adapter, IsLeader returns false, the pass
   returns without a DnsClient call and the process goes on. *)
FailedQueryIsNotLeader ==
    \A n \in Nodes : \A p \in passes[n] :
        (p.step # "check" /\ p.query # "ok")
        => /\ ~p.isLeader
           /\ p.step = "done"
           /\ p.calls = <<>>
           /\ proc[n] = "running"

\* C11, witness: the query of a pass failed on the node that holds leadership,
\* and the pass has returned.
FailedQueryIsNotLeaderWitness ==
    \E n \in Nodes : \E p \in passes[n] :
        /\ p.query \in QueryFailures(OrchOf(n))
        /\ p.byLeader
        /\ p.step = "done"
        /\ proc[n] = "running"

\* Pass p has a DnsClient call with operation op that returned an error.
Failed(p, op) == \E i \in 1..Len(p.calls) : p.calls[i].op = op /\ ~p.calls[i].ok

\* Pass p of node n issues a DnsClient call in this step, and the call fails.
IssuesFailingCall(n, p) ==
    \E q \in passes'[n] :
        /\ q.id = p.id
        /\ Len(q.calls) = Len(p.calls) + 1
        /\ ~q.calls[Len(q.calls)].ok

(* C12. DNS failure inside a pass: a pass calls GetRecords at most once and
   SetRecords at most once, and SetRecords only after its own GetRecords
   succeeded; when either call fails the pass ends there, and the failing call
   changes neither the Config nor the published zone. A pass starts with no
   call made and no currentIP. *)
DnsFailureEndsPass ==
    /\ [](\A n \in Nodes : \A p \in passes[n] :
            /\ Len(CallsOf(p, "GetRecords")) <= 1
            /\ Len(CallsOf(p, "SetRecords")) <= 1
            /\ p.step = "check" => (p.calls = <<>> /\ p.currentIP = "")
            /\ (p.step = "set" \/ CallsOf(p, "SetRecords") # <<>>) => GotRecords(p)
            /\ Failed(p, "GetRecords") => (p.step = "done" /\ Len(p.calls) = 1)
            /\ Failed(p, "SetRecords") => (p.step = "done" /\ Len(p.calls) = 2))
    /\ [][\A n \in Nodes : \A p \in passes[n] :
             IssuesFailingCall(n, p) => (zone' = zone /\ cfg' = cfg)]_vars

\* C12, witness: SetRecords of a pass has failed and the pass has returned
\* with the zone still lacking the node's address.
DnsFailureEndsPassWitness ==
    \E n \in Nodes : \E p \in passes[n] :
        /\ Failed(p, "SetRecords")
        /\ p.step = "done"
        /\ proc[n] = "running"
        /\ CurrentIP(zone, cfg[n].Record) # cfg[n].ServerIP

\* The answers to the requests the operation has sent, in order.
RequestsSent == SelectSeq(wire, LAMBDA e : e.kind = "request")

\* The position in wire of the first request answered with the session-expired
\* code; 0 when there is none.
FirstExpiry ==
    LET hits == { i \in 1..Len(wire) : /\ wire[i].kind = "request"
                                       /\ Answered(wire[i].answer, SessionExpired) }
    IN  IF hits = {} THEN 0 ELSE CHOOSE i \in hits : \A j \in hits : i <= j

\* What the operation has sent after that answer.
AfterExpiry == SubSeq(wire, FirstExpiry + 1, Len(wire))

\* The logins among them.
ReLogins == SelectSeq(AfterExpiry, LAMBDA e : e.kind = "login")

(* C13. Session-expiry recovery: when the request of GetRecordContent or
   UpdateDNS is answered with code 1500 and everything the client sends after
   that is answered with code 1000, the operation has logged in again exactly
   once, has sent the request exactly twice, and returns without error. *)
SessionExpiryRecovery ==
    ( /\ result # "none"
      /\ FirstExpiry > 0
      /\ \A i \in 1..Len(AfterExpiry) : Answered(AfterExpiry[i].answer, CommandOk) )
    => /\ result = "ok"
       /\ Len(ReLogins) = 1
       /\ Len(RequestsSent) = 2

\* C13, witness: UpdateDNS has returned without error after its first request
\* was answered with code 1500.
SessionExpiryRecoveryWitness ==
    /\ method = "UpdateDNS"
    /\ ipc = "done"
    /\ result = "ok"
    /\ FirstExpiry > 0

(* C14. Bounded session retry: an operation logs in again at most once and
   sends its request at most twice; when the retried request is answered with
   code 1500 as well, the operation returns an error. *)
BoundedSessionRetry ==
    /\ Len(ReLogins) <= 1
    /\ Len(RequestsSent) <= 2
    /\ depth <= 2
    /\ ( /\ Len(RequestsSent) = 2
         /\ Answered(RequestsSent[1].answer, SessionExpired)
         /\ Answered(RequestsSent[2].answer, SessionExpired) )
       => (ipc # "entry" /\ result = "error")

\* The positions of step in the startup trace of node n.
Positions(n, step) == { i \in 1..Len(trace[n]) : trace[n][i] = step }

\* The process on n has taken the step.
Took(n, step) == Positions(n, step) # {}

\* Every occurrence of step a precedes every occurrence of step b.
Precedes(n, a, b) == \A i \in Positions(n, a) : \A j \in Positions(n, b) : i < j

\* No reconciliation pass has been invoked on n and no event watch entered.
NothingStarted(n) ==
    /\ started[n].startup = 0
    /\ started[n].event = 0
    /\ passes[n] = {}
    /\ ~sub[n]
    /\ pc[n] \notin {"initial", "open", "scan", "returned"}

(* The environment selects a DNS provider whose credentials are missing, a
   DNS provider that is neither inwx nor bunny, or an orchestration type that
   is neither swarm nor kubernetes. *)
FatalEnv(e) ==
    \/ ConfigureDnsError(NewConfigFromEnv(e), e) # ""
    \/ AdapterConstructor(NewConfigFromEnv(e)) = ""

(* C15. Startup fatal paths: in such an environment NewSentinel never returns:
   the process ends as a fatal startup error, before GetNodePublicIP (the first
   request to the orchestration API) is called, and no pass and no event watch
   is ever started. *)
StartupFatal ==
    \A n \in Nodes :
        (Took(n, "NewConfig") /\ FatalEnv(env[n]))
        => /\ pc[n] \in {"dns", "orch", "ip", "gone"}
           /\ proc[n] \in {"running", "fatal", "exited"}
           /\ ~Took(n, "GetNodePublicIP")
           /\ NothingStarted(n)

\* The messages GetConfigurationErrors can return.
ConfigErrorMessages ==
    UNION { { errs[i] : i \in 1..Len(errs) } :
            errs \in ConfigurationErrors(OrchestrationTypeDockerSwarm)
                     \cup ConfigurationErrors(OrchestrationTypeKubernetes) }

\* GetConfigurationErrors has returned a non-empty list on n.
ReportedConfigErrors(n) == \E m \in ConfigErrorMessages : Took(n, m)

(* C16. Configuration errors are fatal: GetConfigurationErrors is called once,
   after the adapter is constructed and before any other method of the adapter;
   a non-empty list ends the process with no pass, no DNS call and no event
   watch having happened. *)
ConfigErrorsCheckedFirst ==
    \A n \in Nodes :
        /\ Cardinality(Positions(n, "GetConfigurationErrors")) <= 1
        /\ Precedes(n, "NewDockerClient", "GetConfigurationErrors")
        /\ Precedes(n, "NewK8sClient", "GetConfigurationErrors")
        /\ Took(n, "GetConfigurationErrors") => ~Took(n, "GetNodePublicIP")
        /\ ReportedConfigErrors(n) => (proc[n] = "fatal" /\ NothingStarted(n))

(* C16, amended. GetConfigurationErrors is called once, at the head of Run:
   after the adapter is constructed and after NewSentinel has called its
   GetNodePublicIP, and before any pass or event watch; a non-empty list ends
   the process with no pass, no DNS call and no event watch having happened. *)
ConfigErrorsFatal ==
    \A n \in Nodes :
        /\ Cardinality(Positions(n, "GetConfigurationErrors")) <= 1
        /\ Precedes(n, "NewDockerClient", "GetConfigurationErrors")
        /\ Precedes(n, "NewK8sClient", "GetConfigurationErrors")
        /\ Took(n, "GetConfigurationErrors") =>
              /\ Took(n, "GetNodePublicIP")
              /\ Precedes(n, "GetNodePublicIP", "GetConfigurationErrors")
        /\ ~Took(n, "GetConfigurationErrors") => NothingStarted(n)
        /\ ReportedConfigErrors(n) => (proc[n] = "fatal" /\ NothingStarted(n))

\* C16, witness: the process has ended on a configuration error reported by
\* the adapter whose GetNodePublicIP had answered before.
ConfigErrorsFatalWitness ==
    \E n \in Nodes :
        /\ ReportedConfigErrors(n)
        /\ proc[n] = "fatal"
        /\ Took(n, "GetNodePublicIP")
        /\ cfg[n].ServerIP # ""

\* The Config fields written on n after NewConfig returned, in order.
ConfigWrites(n) ==
    SelectSeq(trace[n], LAMBDA step : step \in {"Config.RecordTTL", "Config.ServerIP"})

(* C17. Configuration immutability: after NewConfig has returned, the Config
   differs from what NewConfig returned in ServerIP alone, and ServerIP is
   written once. *)
OnlyServerIPWritten ==
    \A n \in Nodes :
        Took(n, "NewConfig")
        => /\ [cfg[n] EXCEPT !.ServerIP = ""] = NewConfigFromEnv(env[n])
           /\ Len(ConfigWrites(n)) <= 1

(* C17, amended. After NewConfig has returned, Domain, Record, LogLevel,
   OrchestrationType and DnsProvider keep their values; RecordTTL is written
   once, by the configure function of the DNS provider before the adapter is
   built, and ServerIP once, after the adapter is built; nothing is written
   once NewSentinel has returned, through Run and every pass. *)
ConfigWrittenAtStartupOnly ==
    /\ [](\A n \in Nodes :
            Took(n, "NewConfig")
            => /\ [cfg[n] EXCEPT !.ServerIP = "", !.RecordTTL = 0] = NewConfigFromEnv(env[n])
               /\ ConfigWrites(n) \in { <<>>, <<"Config.RecordTTL">>,
                                        <<"Config.RecordTTL", "Config.ServerIP">> }
               /\ Precedes(n, "Config.RecordTTL", AdapterConstructor(cfg[n]))
               /\ Precedes(n, AdapterConstructor(cfg[n]), "Config.ServerIP"))
    /\ [][\A n \in Nodes : cfg'[n] # cfg[n] => pc[n] \in {"main", "dns", "ip"}]_vars

\* C17, witness: a pass of a process that went through the whole startup has
\* written the zone and returned.
ConfigWrittenAtStartupOnlyWitness ==
    \E n \in Nodes : \E p \in passes[n] :
        /\ Took(n, "NewConfig")
        /\ Len(ConfigWrites(n)) = 2
        /\ p.step = "done"
        /\ CallsOf(p, "SetRecords") # <<>>

(* C20. Orchestration selection by environment: with SENTINEL_ORCHESTRATION
   set to kubernetes NewSentinel builds the Kubernetes adapter, with swarm or
   with the variable unset it builds the swarm adapter; it builds one adapter,
   once. *)
OrchestrationByEnv ==
    \A n \in Nodes :
        /\ Cardinality(Positions(n, "NewDockerClient") \cup Positions(n, "NewK8sClient")) <= 1
        /\ (orchestration[n] # "nil" /\ env[n]["ORCHESTRATION_TYPE"] = Unset)
           => orchestration[n] =
                 IF env[n]["ORCHESTRATION"] = OrchestrationTypeKubernetes
                 THEN "K8sClient" ELSE "DockerClient"

\* The watch of node n reads the event at the head of its stream in this step.
ReadsEvent(n) ==
    /\ proc[n] = "running"
    /\ proc'[n] = "running"
    /\ pc[n] = "scan"
    /\ stream[n] # <<>>
    /\ stream'[n] = Tail(stream[n])

\* The callback is invoked on node n in this step, this many times.
CallbackInvoked(n) == started'[n].event - started[n].event

\* The event reports a change of leadership.
LeadershipChange(orch, e) ==
    IF orch = OrchestrationTypeDockerSwarm
    THEN e.text = "json" /\ e.Type = "node" /\ e.Action = "update" /\ e.Attr = "leader"
    ELSE e.Name = LeaderLease /\ e.Old # e.New

\* The event is a swarm node update, or an update of the leader lease that
\* changes its holder.
NodeOrLeaseUpdate(orch, e) ==
    IF orch = OrchestrationTypeDockerSwarm
    THEN e.text = "json" /\ e.Type = "node" /\ e.Action = "update"
    ELSE e.Name = LeaderLease /\ e.Old # e.New

(* C19. WatchEvents invokes the callback only for leadership-relevant changes,
   once per change: never for a swarm event that is no manager/leader
   transition, never for an update of another lease or one that leaves the
   holder unchanged. *)
CallbackOnlyOnLeaderChange ==
    [][\A n \in Nodes :
          /\ CallbackInvoked(n) \in {0, 1}
          /\ CallbackInvoked(n) = 1 =>
                (ReadsEvent(n) /\ LeadershipChange(OrchOf(n), Head(stream[n])))
          /\ (ReadsEvent(n) /\ LeadershipChange(OrchOf(n), Head(stream[n])))
                => CallbackInvoked(n) = 1]_vars

(* C19, amended. The swarm adapter invokes the callback once for every event
   of type node and action update, whatever the update changed, and for no
   other line; the Kubernetes adapter once for every update of the leader
   lease that changes the holder identity, and for no other update. *)
CallbackOnQualifyingEvent ==
    [][\A n \in Nodes :
          /\ CallbackInvoked(n) \in {0, 1}
          /\ CallbackInvoked(n) = 1 =>
                (ReadsEvent(n) /\ NodeOrLeaseUpdate(OrchOf(n), Head(stream[n])))
          /\ (ReadsEvent(n) /\ NodeOrLeaseUpdate(OrchOf(n), Head(stream[n])))
                => CallbackInvoked(n) = 1]_vars

\* C19, witness: on a swarm node the callback has been invoked once by an
\* event while leadership has not changed.
CallbackOnQualifyingEventWitness ==
    \E n \in Nodes :
        /\ OrchOf(n) = OrchestrationTypeDockerSwarm
        /\ changes = 0
        /\ started[n].event = 1

\* Two DnsClient calls that differ at most in the TTL of the records passed.
SameButTTL(a, b) ==
    /\ a.op = b.op
    /\ a.zone = b.zone
    /\ a.ok = b.ok
    /\ Len(a.records) = Len(b.records)
    /\ \A j \in 1..Len(a.records) :
          /\ a.records[j].Name = b.records[j].Name
          /\ a.records[j].Type = b.records[j].Type
          /\ a.records[j].Data = b.records[j].Data

\* The TTL the claim gives the records written with a DNS provider.
ProviderTTL(dnsProvider) == IF dnsProvider = DnsProviderInwx THEN 300 ELSE 15

(* C18. Provider substitutability: given the same triggers, leadership
   answers, zone contents and call outcomes, a Sentinel configured with inwx
   and one configured with bunny go through a pass alike and issue the same
   GetRecords / SetRecords calls, with the same zone, record name and content;
   the written record has TTL 300 with inwx and 15 with bunny. *)
ProviderSubstitutable ==
    \A n \in Nodes : \A p \in passes[n] :
        /\ p.other.step = p.step
        /\ p.other.isLeader = p.isLeader
        /\ p.other.currentIP = p.currentIP
        /\ Len(p.other.calls) = Len(p.calls)
        /\ \A i \in 1..Len(p.calls) :
              /\ SameButTTL(p.calls[i], p.other.calls[i])
              /\ \A j \in 1..Len(p.calls[i].records) :
                    /\ p.calls[i].records[j].TTL = ProviderTTL(cfg[n].DnsProvider)
                    /\ p.other.calls[i].records[j].TTL
                          = ProviderTTL(OtherProvider(cfg[n]).DnsProvider)
                    /\ p.other.calls[i].records[j].TTL # p.calls[i].records[j].TTL

\* C18, witness: a pass of a Sentinel configured with bunny has written its
\* record and returned.
ProviderSubstitutableWitness ==
    \E n \in Nodes : \E p \in passes[n] :
        /\ cfg[n].DnsProvider = DnsProviderBunny
        /\ p.step = "done"
        /\ \E i \in 1..Len(p.calls) : p.calls[i].op = "SetRecords" /\ p.calls[i].ok

\* The positions in wire of the logins the provider answered with code 1000.
LoginsAccepted ==
    { i \in 1..Len(wire) : /\ wire[i].kind = "login"
                           /\ Answered(wire[i].answer, CommandOk) }

(* C21. Login on first use: the first operation on a client built by
   NewInwxClient, GetRecordContent or UpdateDNS, sends a login before
   anything else, sends its request only after a login the provider answered
   with code 1000, and returns without error when the login and the request
   were both answered with code 1000. *)
LoginOnFirstUse ==
    ops = 1
    => /\ wire # <<>> => wire[1].kind = "login"
       /\ \A i \in 1..Len(wire) :
              wire[i].kind = "request" => \E j \in LoginsAccepted : j < i
       /\ ( /\ ipc # "entry"
            /\ wire = << InwxLoginEntry(Answer("", CommandOk)),
                         InwxRequestEntry(Answer("", CommandOk)) >> )
          => result = "ok"

\* C21, witness: the first operation of a client was GetRecordContent; it has
\* logged in, sent its request and returned without error.
LoginOnFirstUseWitness ==
    /\ ops = 1
    /\ method = "GetRecordContent"
    /\ ipc = "done"
    /\ result = "ok"
    /\ wire = << InwxLoginEntry(Answer("", CommandOk)),
                 InwxRequestEntry(Answer("", CommandOk)) >>

\* The last exchange of the client was a login that returned an error.
LoginFailed ==
    /\ wire # <<>>
    /\ wire[Len(wire)].kind = "login"
    /\ ~Answered(wire[Len(wire)].answer, CommandOk)

(* C30. No session after a failed login: when Login has returned an error,
   the client holds no cookies, so that the next GetRecordContent or UpdateDNS
   calls Login again. *)
FailedLoginLeavesNoSession ==
    LoginFailed => cookies = "nil"

\* The status addresses of type ExternalIP of the Node the process is given.
ExternalAddresses(n) ==
    SelectSeq(host[n].Node.Addresses, LAMBDA a : a.Type = NodeExternalIP)

\* NewSentinel has called GetNodePublicIP on the Kubernetes adapter.
K8sPublicIPAsked(n) ==
    /\ orchestration[n] = "K8sClient"
    /\ Took(n, "GetNodePublicIP")

(* C22. Kubernetes public-IP source order: GetNodePublicIP returns the value
   of the public_ip label when the Node has one; without the label, the
   address of the first status address of type ExternalIP; it returns an error
   and no IP when there is neither, when NODE_NAME is not set and when the
   Node cannot be fetched. NewSentinel stores what it returned in ServerIP. *)
K8sPublicIPOrder ==
    \A n \in Nodes :
        LET h == host[n]
            got == K8sGetNodePublicIP(h)
            failed == got.err # "" /\ got.ip = ""
        IN  /\ IF h.NODE_NAME = Unset \/ h.lookup # "ok" THEN failed
               ELSE IF "public_ip" \in DOMAIN h.Node.Labels
               THEN got = PublicIP(h.Node.Labels["public_ip"], "")
               ELSE IF ExternalAddresses(n) # <<>>
               THEN got = PublicIP(ExternalAddresses(n)[1].Address, "")
               ELSE failed
            /\ K8sPublicIPAsked(n)
               => IF got.err = ""
                  THEN proc[n] = "running" /\ cfg[n].ServerIP = got.ip
                  ELSE proc[n] = "fatal" /\ cfg[n].ServerIP = ""

\* C22, witness: NewSentinel has taken its ServerIP from the only external
\* address, the third address, of a Node without the label.
K8sPublicIPOrderWitness ==
    \E n \in Nodes :
        /\ K8sPublicIPAsked(n)
        /\ pc[n] = "start"
        /\ "public_ip" \notin DOMAIN host[n].Node.Labels
        /\ Len(host[n].Node.Addresses) = 3
        /\ host[n].Node.Addresses[3].Type = NodeExternalIP
        /\ cfg[n].ServerIP = host[n].Node.Addresses[3].Address

(* C23. Termination signal: wherever the goroutine of Run stands (before the
   startup pass, in a pass, blocked in WatchEvents or returned from it), a
   running process can take the signal at once, and taking it ends the
   process: its passes are gone, and no call reaches the zone in that step. *)
SignalExitsFromEveryState ==
    /\ [](\A n \in Nodes : proc[n] = "running" => ENABLED Signal(n))
    /\ [][\A n \in Nodes :
            (proc[n] = "running" /\ proc'[n] = "exited")
            => /\ passes'[n] = {}
               /\ await'[n] = 0
               /\ ~sub'[n]
               /\ UNCHANGED <<zone, started, pc>>]_vars
    /\ [][\A n \in Nodes : proc[n] = "exited" => UNCHANGED <<proc[n], passes[n], started[n].startup, started[n].event>>]_vars

\* C23, witness: the process has ended on a signal that found it in its
\* startup pass.
SignalExitsFromEveryStateWitness ==
    \E n \in Nodes :
        /\ proc[n] = "exited"
        /\ pc[n] = "initial"
        /\ started[n].startup = 1

\* The positions in records of the address records named name.
Matches(records, name) ==
    { i \in 1..Len(records) : records[i].Name = name /\ records[i].Type = "A" }

\* The content of the first of them; "" when there is none.
FirstMatch(records, name) ==
    LET hits == Matches(records, name)
    IN  IF hits = {} THEN ""
        ELSE records[CHOOSE i \in hits : \A j \in hits : i <= j].Data

\* Pass p of node n receives the records of the zone in this step, as pass q.
ReadsRecords(n, p, q) ==
    /\ p \in passes[n]
    /\ p.step = "get"
    /\ q \in passes'[n]
    /\ q.id = p.id
    /\ q.step # "get"
    /\ q.calls[Len(q.calls)].ok

(* C24. Observed-record scan: when a pass receives the records, its currentIP
   is the content of the first record named Config.Record of the address
   type, whatever else the zone holds; it is empty when there is none, and
   with a non-empty ServerIP the pass then goes on to call SetRecords. *)
ObservedRecordScan ==
    [][\A n \in Nodes : \A p \in passes[n] : \A q \in passes'[n] :
            ReadsRecords(n, p, q)
            => /\ q.currentIP = FirstMatch(zone, cfg[n].Record)
               /\ (q.currentIP = "" /\ cfg[n].ServerIP # "") => q.step = "set"]_vars

\* Pass p of node n has read the records and found its ServerIP published.
FoundConverged(n, p) ==
    /\ GotRecords(p)
    /\ p.currentIP = cfg[n].ServerIP

(* C25. Already converged is a no-op: a pass whose currentIP equals
   Config.ServerIP ends without a SetRecords call, and no step of such a pass
   changes the zone. *)
ConvergedIsNoOp ==
    /\ [](\A n \in Nodes : \A p \in passes[n] :
            FoundConverged(n, p) => p.step = "done" /\ CallsOf(p, "SetRecords") = <<>>)
    /\ [][\A n \in Nodes : \A p \in passes[n] : \A q \in passes'[n] :
            (q.id = p.id /\ q # p /\ (FoundConverged(n, p) \/ FoundConverged(n, q)))
            => zone' = zone]_vars

\* C25, witness: an event pass of the leader has found the address its
\* startup pass wrote, and has returned.
ConvergedIsNoOpWitness ==
    \E n \in Nodes : \E p \in passes[n] :
        /\ p.trigger = "event"
        /\ FoundConverged(n, p)
        /\ p.currentIP # ""
        /\ p.step = "done"

\* Pass p of node n is asked for its decision in this step, and leaves it as q.
Decides(n, p, q) ==
    /\ p \in passes[n]
    /\ p.step = "get"
    /\ q \in passes'[n]
    /\ q.id = p.id
    /\ q.step \in {"done", "set", "panic"}
    /\ q.calls[Len(q.calls)].ok

(* C26. Fresh observation per pass: a pass starts with nothing observed; it
   asks IsLeader once, before any call, and its isLeader is the answer of the
   cluster at that moment; on a leader it calls GetRecords once, before any
   SetRecords; and whether it writes is decided by the records of that call
   and Config.ServerIP alone. *)
FreshObservationPerPass ==
    /\ [](\A n \in Nodes : \A p \in passes[n] :
            /\ p.step = "check"
               => p.query = "" /\ ~p.isLeader /\ p.currentIP = "" /\ p.calls = <<>>
            /\ p.step # "check"
               => p.query # "" /\ (p.isLeader <=> (p.query = "ok" /\ p.byLeader))
            /\ (p.isLeader /\ p.step # "get")
               => /\ p.calls # <<>>
                  /\ p.calls[1].op = "GetRecords"
                  /\ Len(CallsOf(p, "GetRecords")) = 1
            /\ CallsOf(p, "SetRecords") # <<>>
               => /\ p.isLeader /\ GotRecords(p)
                  /\ p.currentIP # cfg[n].ServerIP)
    /\ [][\A n \in Nodes : \A p \in passes[n] : \A q \in passes'[n] :
            Decides(n, p, q)
            => /\ q.currentIP = FirstMatch(zone, cfg[n].Record)
               /\ q.step = "done" <=> q.currentIP = cfg[n].ServerIP]_vars

\* C26, witness: after a change of leadership an event pass, the second pass
\* of its process or a later one, has seen its node lead, read the records
\* and written.
FreshObservationPerPassWitness ==
    \E n \in Nodes : \E q \in passes[n] :
        /\ changes > 0
        /\ q.trigger = "event" /\ q.id > 1
        /\ q.step = "done" /\ q.isLeader
        /\ Len(q.calls) = 2
        /\ q.calls[1].op = "GetRecords" /\ q.calls[2].op = "SetRecords"

\* z is the name d followed by one dot.
DotTerminated(z, d) ==
    /\ Len(z) = Len(d) + 1
    /\ SubSeq(z, 1, Len(d)) = d
    /\ SubSeq(z, Len(z), Len(z)) = "."

(* C27. Zone naming: every GetRecords and SetRecords call of a pass names the
   zone Config.Domain followed by one dot, so the read and the write of one
   pass name the same zone. *)
ZoneNaming ==
    \A n \in Nodes : \A p \in passes[n] :
        /\ \A i \in 1..Len(p.calls) : DotTerminated(p.calls[i].zone, cfg[n].Domain)
        /\ \A i, j \in 1..Len(p.calls) : p.calls[i].zone = p.calls[j].zone

\* C27, witness: a pass has read the zone and written to it.
ZoneNamingWitness ==
    \E n \in Nodes : \E p \in passes[n] :
        /\ Len(p.calls) = 2
        /\ p.calls[1].op = "GetRecords" /\ p.calls[1].zone = "example.com."
        /\ p.calls[2].op = "SetRecords" /\ p.calls[2].zone = "example.com."

\* The nodes whose IsLeader returns true when the lease can be read.
K8sLeaders == { n \in Nodes : K8sIsLeader(n, "ok") }

(* C28. Kubernetes leadership is exclusive: whoever holds the lease, IsLeader
   returns true on at most one of the nodes, whose names differ, and only on
   the node the holder identity names; a pass sees its node lead only when it
   does. *)
K8sLeadershipExclusive ==
    ClusterOrch = OrchestrationTypeKubernetes
    => /\ \A n, m \in Nodes : n # m => host[n].NODE_NAME # host[m].NODE_NAME
       /\ Cardinality(K8sLeaders) <= 1
       /\ K8sLeaders \subseteq {leader}
       /\ \A n \in Nodes : \A p \in passes[n] : p.isLeader => p.byLeader

\* C28, witness: while node10 holds the lease, a pass on node10 has seen
\* itself lead and a pass on node1 has not.
K8sLeadershipExclusiveWitness ==
    /\ ClusterOrch = OrchestrationTypeKubernetes
    /\ leader = "n2"
    /\ changes = 0
    /\ \E p \in passes["n2"] : p.query = "ok" /\ p.isLeader
    /\ \E p \in passes["n1"] : p.query = "ok" /\ ~p.isLeader

\* Every process runs and none has a step left to take.
Quiescent ==
    /\ \A n \in Nodes : proc[n] = "running"
    /\ ~ENABLED (\E n \in Nodes : Step(n))

(* C29. No leadership change is missed around startup: once leadership has
   moved, whether before or after a node's startup pass asked IsLeader and
   whether before or after its subscription was open, and the processes have
   done all they are going to do, a pass of the node that leads has seen it
   lead. *)
NoChangeMissedAroundStartup ==
    (changes >= 1 /\ Quiescent) => started[leader].led

\* The exchange was answered with a code that is neither 1000 nor 1500.
OtherCode(e) ==
    /\ e.answer.err = ""
    /\ e.answer.code \notin {CommandOk, SessionExpired}

\* The operation sends its request in this step and gets such an answer.
RequestRefused ==
    /\ Len(wire') = Len(wire) + 1
    /\ wire'[Len(wire')].kind = "request"
    /\ OtherCode(wire'[Len(wire')])

(* C31. Non-session provider errors are not retried: when the request of
   GetRecordContent or UpdateDNS is answered with a code that is neither 1000
   nor 1500, the operation returns an error in that step, with the cookies and
   the nesting as they were, and sends nothing after it; the cookies are
   dropped only in a step whose request was answered with code 1500. *)
OtherCodesNotRetried ==
    /\ [][RequestRefused
          => /\ ipc' = "done"
             /\ result' = "error"
             /\ UNCHANGED <<cookies, depth>>]_vars
    /\ [](\A i \in 1..Len(wire) :
            (wire[i].kind = "request" /\ OtherCode(wire[i]))
            => i = Len(wire) /\ ipc # "entry" /\ result = "error")
    /\ [][(cookies = "set" /\ cookies' = "nil")
          => /\ Len(wire') = Len(wire) + 1
             /\ wire'[Len(wire')].kind = "request"
             /\ Answered(wire'[Len(wire')].answer, SessionExpired)]_vars

\* C31, witness: UpdateDNS has returned an error after its request was
\* answered with code 2303, on a client that keeps its cookies.
OtherCodesNotRetriedWitness ==
    /\ method = "UpdateDNS"
    /\ ipc = "done"
    /\ result = "error"
    /\ cookies = "set"
    /\ wire # <<>>
    /\ wire[Len(wire)] = InwxRequestEntry(Answer("", ObjectMissing))

\* The swarm watch of node n, in its scanner loop, meets a line in this step.
SwarmMeetsLine(n) ==
    /\ OrchOf(n) = OrchestrationTypeDockerSwarm
    /\ proc[n] = "running"
    /\ proc'[n] = "running"
    /\ pc[n] = "scan"
    /\ stream[n] # <<>>
    /\ stream'[n] # stream[n]
    /\ Len(stream'[n]) < Len(stream[n])

\* The line parses as an event with Type node and Action update.
NodeUpdateLine(line) ==
    line.text = "json" /\ line.Type = "node" /\ line.Action = "update"

(* C32. Swarm event stream robustness: whatever line the swarm watch meets,
   it takes that line alone and goes on with the next one; it invokes the
   callback once if the line is an event with Type node and Action update and
   not at all otherwise, so never for an empty line or one that is no event;
   and WatchEvents returns only when the events request failed or the stream
   has ended. *)
SwarmStreamRobust ==
    [][\A n \in Nodes :
          /\ SwarmMeetsLine(n)
             => /\ stream'[n] = Tail(stream[n])
                /\ pc'[n] = "scan"
                /\ CallbackInvoked(n) = IF NodeUpdateLine(Head(stream[n])) THEN 1 ELSE 0
          /\ ( /\ OrchOf(n) = OrchestrationTypeDockerSwarm
               /\ proc'[n] = "running"
               /\ pc[n] # "returned"
               /\ pc'[n] = "returned" )
             => \/ pc[n] = "open"
                \/ pc[n] = "scan" /\ stream[n] = <<>> /\ ~sub[n]]_vars

\* A process that has reached Run is in the state Start gives it.
BootedAsStarted ==
    \A n \in Nodes :
        pc[n] = "start"
        => /\ trace[n] = BootTrace(cfg[n])
           /\ orchestration[n] = AdapterOf(AdapterConstructor(cfg[n]))
           /\ cfg[n] = NewSentinel(NewConfig(cfg[n].OrchestrationType, cfg[n].DnsProvider),
                                    cfg[n].ServerIP)

====
